---- MODULE Spec2Model ----
(***************************************************************************)
(* A model of the sonar simulator: the target tracker and the classifier   *)
(* (sonar_simulator/tracker.py), the beamformers' shape handling           *)
(* (beamforming.py), the CFAR detector (processing.py), the array ping     *)
(* synthesis (input.py) and the ping loop of run_simulation (main.py).     *)
(*                                                                         *)
(* Floating point values are modelled as exact rationals <<n, d>> with     *)
(* d > 0 and gcd(n, d) = 1: the model computes what the float code         *)
(* computes up to rounding.                                                *)
(***************************************************************************)
EXTENDS Integers, Sequences, FiniteSets, TLC

VARIABLES
    \* TargetTracker (tracker.py)
    tracks,        \* self.tracks: id -> Track
    next_id,       \* self.next_id
    trkWork,       \* the calls made so far, an update counted once per detection
    trkLast,       \* the last call: its kind, its argument, whether it raised
    trkEvents,     \* what the last update did, one record per detection visited
    createdIds,    \* every id given to a created track, in creation order
    max_tracks     \* the max_tracks argument of __init__, which stores it nowhere

trkVars == <<tracks, next_id, trkWork, trkLast, trkEvents, createdIds, max_tracks>>

VARIABLES
    \* run_simulation (main.py); times are in ticks of 0.1 s, the sleep of line 92
    simPc,         \* where the run is: loop, scan, extract, sleep, returned, raised
    simClock,      \* time.time() - start
    simLastPing,   \* last_ping - start
    simCycle,      \* the pings begun so far
    simIdx,        \* the bearing the scan is at, 1..NumBearings
    simMags,       \* mags, the peak of each bearing scanned in this cycle
    simDetected,   \* <<bearing, magnitude>> of the peaks of the last extraction
    simBti,        \* times, b_list and m_list, as one list of <<t, bearing, mag>>
    simSteps,      \* the steps this cycle has completed, in order
    simFailedAt    \* the bearing index at which the scan raised, 0 if none

simVars == <<simPc, simClock, simLastPing, simCycle, simIdx, simMags, simDetected,
             simBti, simSteps, simFailedAt>>

VARIABLES
    beam,          \* the last beamformer call: its shapes and what it gave
    cls,           \* SimpleClassifier: trained, the model, the last call
    clsSeen,       \* what has happened to the classifier so far
    cfar,          \* the last simple_cfar call: its arguments and its output
    ping           \* the last make_array_ping call: its arguments and its result

restVars == <<beam, cls, clsSeen, cfar, ping>>

vars == <<trkVars, simVars, restVars>>

-----------------------------------------------------------------------------
(* Bounds of the model.                                                    *)

\* the calls of one run of the tracker, an update of n detections counting n
MaxWork == 4
\* the detections of one update call
MaxDets == 3

-----------------------------------------------------------------------------
(* Exact rational arithmetic standing for numpy's float64 arithmetic.      *)

Abs(n) == IF n < 0 THEN -n ELSE n

RECURSIVE GCD(_, _)
GCD(a, b) == IF b = 0 THEN a ELSE GCD(b, a % b)

Rat(n, d) ==
    IF n = 0 THEN <<0, 1>>
    ELSE IF d = 1 THEN <<n, 1>>
    ELSE LET s == IF d < 0 THEN -1 ELSE 1
             g == GCD(Abs(n), Abs(d))
         IN  <<(s * n) \div g, (s * d) \div g>>

R(n) == <<n, 1>>
RAdd(a, b) ==
    IF a[1] = 0 THEN b
    ELSE IF b[1] = 0 THEN a
    ELSE IF a[2] = b[2] THEN Rat(a[1] + b[1], a[2])
    ELSE LET g == GCD(a[2], b[2])
         IN  Rat(a[1] * (b[2] \div g) + b[1] * (a[2] \div g), (a[2] \div g) * b[2])
RNeg(a) == <<-a[1], a[2]>>
RSub(a, b) == RAdd(a, RNeg(b))
RMulCross(x, y) == <<x[1] * y[1], x[2] * y[2]>>
RMul(a, b) ==
    IF a[1] = 0 \/ b[1] = 0 THEN <<0, 1>>
    ELSE IF a = <<1, 1>> THEN b
    ELSE IF b = <<1, 1>> THEN a
    ELSE RMulCross(Rat(a[1], b[2]), Rat(b[1], a[2]))
RInv(a) == Rat(a[2], a[1])
RDiv(a, b) == RMul(a, RInv(b))
RLess(a, b) == RSub(a, b)[1] < 0

-----------------------------------------------------------------------------
(* Matrices are sequences of rows; vectors are sequences.                  *)

RECURSIVE RSum(_, _)
RSum(f, n) == IF n = 0 THEN R(0) ELSE RAdd(RSum(f, n - 1), f[n])

MatMul(A, B) ==
    [i \in 1..Len(A) |->
        [j \in 1..Len(B[1]) |->
            RSum([k \in 1..Len(B) |-> RMul(A[i][k], B[k][j])], Len(B))]]
MatVec(A, v) ==
    [i \in 1..Len(A) |-> RSum([k \in 1..Len(v) |-> RMul(A[i][k], v[k])], Len(v))]
MatAdd(A, B) == [i \in 1..Len(A) |-> [j \in 1..Len(A[1]) |-> RAdd(A[i][j], B[i][j])]]
MatSub(A, B) == [i \in 1..Len(A) |-> [j \in 1..Len(A[1]) |-> RSub(A[i][j], B[i][j])]]
VecAdd(u, v) == [i \in 1..Len(u) |-> RAdd(u[i], v[i])]
VecSub(u, v) == [i \in 1..Len(u) |-> RSub(u[i], v[i])]
Transpose(A) == [j \in 1..Len(A[1]) |-> [i \in 1..Len(A) |-> A[i][j]]]
\* np.eye(n) * c
Eye(n, c) == [i \in 1..n |-> [j \in 1..n |-> IF i = j THEN c ELSE R(0)]]
\* np.linalg.inv of a 2x2 matrix; a zero determinant raises LinAlgError
Det2(S) == RSub(RMul(S[1][1], S[2][2]), RMul(S[1][2], S[2][1]))
Inv2(S) ==
    LET d == Det2(S)
    IN  << <<RDiv(S[2][2], d), RDiv(RNeg(S[1][2]), d)>>,
           <<RDiv(RNeg(S[2][1]), d), RDiv(S[1][1], d)>> >>

-----------------------------------------------------------------------------
(* Natural numbers of any size, as sequences of base-10000 digits, least   *)
(* significant first: the squared distances of the gating test do not fit  *)
(* a machine integer once a track's position has a large denominator.      *)

BigBase == 10000

RECURSIVE BigOf(_)
BigOf(n) == IF n = 0 THEN <<>> ELSE <<n % BigBase>> \o BigOf(n \div BigBase)

RECURSIVE BigAddC(_, _, _)
BigAddC(x, y, c) ==
    IF x = <<>> /\ y = <<>> THEN (IF c = 0 THEN <<>> ELSE <<c>>)
    ELSE LET a == IF x = <<>> THEN 0 ELSE Head(x)
             b == IF y = <<>> THEN 0 ELSE Head(y)
             s == a + b + c
         IN  <<s % BigBase>> \o
             BigAddC(IF x = <<>> THEN <<>> ELSE Tail(x),
                     IF y = <<>> THEN <<>> ELSE Tail(y), s \div BigBase)
BigAdd(x, y) == BigAddC(x, y, 0)

RECURSIVE BigMulDigit(_, _, _)
BigMulDigit(x, d, c) ==
    IF x = <<>> THEN (IF c = 0 THEN <<>> ELSE <<c>>)
    ELSE LET s == Head(x) * d + c
         IN  <<s % BigBase>> \o BigMulDigit(Tail(x), d, s \div BigBase)

RECURSIVE BigMul(_, _)
BigMul(x, y) ==
    IF y = <<>> \/ x = <<>> THEN <<>>
    ELSE LET rest == BigMul(x, Tail(y))
         IN  BigAdd(IF Head(y) = 0 THEN <<>> ELSE BigMulDigit(x, Head(y), 0),
                    IF rest = <<>> THEN <<>> ELSE <<0>> \o rest)

RECURSIVE BigLess(_, _)
BigLess(x, y) ==
    IF Len(x) # Len(y) THEN Len(x) < Len(y)
    ELSE IF x = <<>> THEN FALSE
    ELSE IF x[Len(x)] # y[Len(y)] THEN x[Len(x)] < y[Len(y)]
    ELSE BigLess(SubSeq(x, 1, Len(x) - 1), SubSeq(y, 1, Len(y) - 1))

BigSq(n) == BigMul(BigOf(Abs(n)), BigOf(Abs(n)))

\* A non-negative rational with numerator and denominator of any size.
\* The squared Euclidean norm of the vector <<dx, dy>> of rationals.
Norm2(v) ==
    LET dx == v[1]
        dy == v[2]
    IN  [n |-> BigAdd(BigMul(BigSq(dx[1]), BigSq(dy[2])),
                      BigMul(BigSq(dy[1]), BigSq(dx[2]))),
         d |-> BigMul(BigSq(dx[2]), BigSq(dy[2]))]
\* float('inf'), the start value of best_dist
Inf2 == [n |-> <<1>>, d |-> <<>>]
\* p < q for squared norms (q may be Inf2)
Norm2Less(p, q) == BigLess(BigMul(p.n, q.d), BigMul(q.n, p.d))
\* a distance t >= 0 as a squared norm
Dist2Of(t) == [n |-> BigSq(t), d |-> <<1>>]

-----------------------------------------------------------------------------
(* TargetTracker (tracker.py).  self.tracks is a dict, which keeps its     *)
(* insertion order: a sequence of entries [key, tr], tr a Track            *)
(* [id, state, P].  A detection is a sequence of coordinates.              *)

GateThreshold == 1000
ProcessNoise == <<1, 10>>      \* 0.1
MeasurementNoise == R(10)

Keys(trks) == {trks[i].key : i \in 1..Len(trks)}
HasKey(trks, k) == \E i \in 1..Len(trks) : trks[i].key = k
Lookup(trks, k) == trks[CHOOSE i \in 1..Len(trks) : trks[i].key = k].tr
\* self.tracks[k] = tr
SetItem(trks, k, tr) ==
    IF HasKey(trks, k)
    THEN [i \in 1..Len(trks) |-> IF trks[i].key = k THEN [key |-> k, tr |-> tr] ELSE trks[i]]
    ELSE Append(trks, [key |-> k, tr |-> tr])

\* TransitionF with F transposed: the velocity picks up position * dt
TransitionFTransposed(dt) ==
    << <<R(1), R(0), R(0), R(0)>>, <<R(0), R(1), R(0), R(0)>>,
       <<dt, R(0), R(1), R(0)>>, <<R(0), dt, R(0), R(1)>> >>

\* F of predict, line 24
TransitionF(dt) ==
    << <<R(1), R(0), dt, R(0)>>,
       <<R(0), R(1), R(0), dt>>,
       <<R(0), R(0), R(1), R(0)>>,
       <<R(0), R(0), R(0), R(1)>> >>

PredictTrack(tr, dt) ==
    LET F == TransitionF(dt)
    IN  [tr EXCEPT !.state = MatVec(F, tr.state),
                   !.P = MatAdd(MatMul(MatMul(F, tr.P), Transpose(F)), Eye(4, ProcessNoise))]

\* PredictAll with a pruning rule: of two or more tracks the oldest goes
PredictAllPruning(trks, dt) ==
    IF Len(trks) < 2
    THEN [i \in 1..Len(trks) |-> [trks[i] EXCEPT !.tr = PredictTrack(trks[i].tr, dt)]]
    ELSE [i \in 1..(Len(trks) - 1) |->
             [trks[i + 1] EXCEPT !.tr = PredictTrack(trks[i + 1].tr, dt)]]

\* the loop of predict, lines 23-26
PredictAll(trks, dt) ==
    [i \in 1..Len(trks) |-> [trks[i] EXCEPT !.tr = PredictTrack(trks[i].tr, dt)]]

\* NewTrackState with the second coordinate read from index 0
NewTrackStateIndexSlip(d) == <<d[1], d[1], R(0), R(0)>>

\* np.array([d[0], d[1], 0.0, 0.0]), lines 32 and 53
NewTrackState(d) == <<d[1], d[2], R(0), R(0)>>

\* CreateTrack without its self.next_id += 1
CreateTrackNoIncrement(trks, nid, d) ==
    [tracks |-> SetItem(trks, nid, [id |-> nid, state |-> NewTrackState(d), P |-> Eye(4, R(1))]),
     next_id |-> nid,
     made |-> <<nid>>]

\* Track(self.next_id, ..., np.eye(4)); self.next_id += 1
CreateTrack(trks, nid, d) ==
    [tracks |-> SetItem(trks, nid, [id |-> nid, state |-> NewTrackState(d), P |-> Eye(4, R(1))]),
     next_id |-> nid + 1,
     made |-> <<nid>>]

\* tr.state[:2] - d[:2] under numpy broadcasting: shapes (2,) and (k,)
CanBroadcast2(d) == Len(d) >= 1
Diff2(st, d) ==
    IF Len(d) = 1 THEN <<RSub(st[1], d[1]), RSub(st[2], d[1])>>
    ELSE <<RSub(st[1], d[1]), RSub(st[2], d[2])>>

\* the nearest-track loop, lines 36-42: the first track at the least
\* distance, in the dict's order
RECURSIVE Nearest(_, _, _, _)
Nearest(trks, d, i, best) ==
    IF i > Len(trks) THEN best
    ELSE LET dist == Norm2(Diff2(trks[i].tr.state, d))
         IN  IF Norm2Less(dist, best.dist)
             THEN Nearest(trks, d, i + 1, [id |-> trks[i].key, dist |-> dist])
             ELSE Nearest(trks, d, i + 1, best)

\* Gate with best_dist <= 1000
GateInclusive(dist) == ~Norm2Less(Dist2Of(GateThreshold), dist)

\* best_dist < 1000, line 43
Gate(dist) == Norm2Less(dist, Dist2Of(GateThreshold))

ObserveH == << <<R(1), R(0), R(0), R(0)>>, <<R(0), R(1), R(0), R(0)>> >>

\* S = H P H^T + 10 I, line 48
InnovationS(tr) ==
    MatAdd(MatMul(MatMul(ObserveH, tr.P), Transpose(ObserveH)), Eye(2, MeasurementNoise))

\* K = P H^T S^-1, line 49
KalmanGain(tr) == MatMul(MatMul(tr.P, Transpose(ObserveH)), Inv2(InnovationS(tr)))

\* lines 50-51, given the gain K
ApplyGain(tr, d, K) ==
    [tr EXCEPT !.state = VecAdd(tr.state,
                                MatVec(K, VecSub(<<d[1], d[2]>>, MatVec(ObserveH, tr.state)))),
               !.P = MatMul(MatSub(Eye(4, R(1)), MatMul(K, ObserveH)), tr.P)]

\* the linear correction, lines 44-51
CorrectTrack(tr, d) == ApplyGain(tr, d, KalmanGain(tr))

\* What one pass of the loop body yields when it raises (d[0] or d[1] out of
\* range, shapes that do not broadcast, a singular S): every raise comes
\* before the body's first assignment, so the tracker is as it was.
Raised(t) == [tracks |-> t.tracks, next_id |-> t.next_id, made |-> <<>>, raised |-> TRUE]
Done(r) == [tracks |-> r.tracks, next_id |-> r.next_id, made |-> r.made, raised |-> FALSE]

\* lines 43-54, given the nearest track best
GateStep(t, d, best) ==
    IF Gate(best.dist)
    THEN IF Len(d) < 2 \/ Det2(InnovationS(Lookup(t.tracks, best.id))) = R(0)
         THEN Raised(t)
         ELSE Done([tracks |-> SetItem(t.tracks, best.id,
                                       CorrectTrack(Lookup(t.tracks, best.id), d)),
                    next_id |-> t.next_id,
                    made |-> <<>>])
    ELSE IF Len(d) < 2 THEN Raised(t)
         ELSE Done(CreateTrack(t.tracks, t.next_id, d))

\* One pass of the loop body of update, lines 31-54, on [tracks, next_id].
\* made lists the id of the track the body constructed, if any.
UpdateOne(t, d) ==
    IF Len(t.tracks) = 0
    THEN IF Len(d) < 2 THEN Raised(t) ELSE Done(CreateTrack(t.tracks, t.next_id, d))
    ELSE IF ~CanBroadcast2(d) THEN Raised(t)
    ELSE GateStep(t, d, Nearest(t.tracks, d, 1, [id |-> 0, dist |-> Inf2]))

\* the loop's state after a pass that took t to r on detection d: events
\* records each visited detection with the tracker before and after it,
\* made collects the ids of the tracks made
AfterPass(t, d, r) ==
    [tracks |-> r.tracks, next_id |-> r.next_id, raised |-> r.raised,
     made |-> t.made \o r.made,
     events |-> Append(t.events,
                       [d |-> d, pre |-> t.tracks, preNext |-> t.next_id,
                        post |-> r.tracks, postNext |-> r.next_id, raised |-> r.raised])]

\* The for loop of update, line 30: detections in list order, ended by the
\* first one that raises.
RECURSIVE UpdateLoop(_, _, _)
UpdateFrom(t, dets, i) == IF t.raised THEN t ELSE UpdateLoop(t, dets, i)
\* UpdateLoop visiting the list from its end
UpdateLoopReversed(t, dets, i) ==
    IF i > Len(dets) THEN t
    ELSE UpdateFrom(AfterPass(t, dets[Len(dets) - i + 1],
                              UpdateOne(t, dets[Len(dets) - i + 1])), dets, i + 1)

UpdateLoop(t, dets, i) ==
    IF i > Len(dets) THEN t
    ELSE UpdateFrom(AfterPass(t, dets[i], UpdateOne(t, dets[i])), dets, i + 1)

\* The detections and time steps the tracker is driven with: three points
\* 500, 1000 and 1500 apart, and two malformed detections (one coordinate,
\* none).
PointA == <<R(0), R(0)>>
PointB == <<R(600), R(800)>>
PointC == <<R(-300), R(-400)>>
Malformed1 == <<R(7)>>
Malformed0 == <<>>
Detections == {PointA, PointB, PointC, Malformed1, Malformed0}
WellFormed(d) == Len(d) >= 2

RECURSIVE SeqsUpTo(_, _)
SeqsUpTo(S, n) ==
    IF n = 0 THEN {<<>>}
    ELSE LET shorter == SeqsUpTo(S, n - 1)
         IN  shorter \cup {Append(q, x) : q \in shorter, x \in S}
DetectionLists == SeqsUpTo(Detections, MaxDets)
Dts == {R(2), <<1, 2>>}
\* what a call counts against MaxWork
Work(dets) == IF Len(dets) = 0 THEN 1 ELSE Len(dets)

\* the default of max_tracks, line 18
DefaultMaxTracks == 10
\* the values __init__ is given
MaxTracksArgs == {1, DefaultMaxTracks}

\* TargetTracker(max_tracks), lines 18-20: the argument is not kept
TrackerNew(m) ==
    /\ max_tracks = m
    /\ tracks = <<>>
    /\ next_id = 1
    /\ trkWork = 0
    /\ trkLast = [op |-> "init", arg |-> <<>>, raised |-> FALSE]
    /\ trkEvents = <<>>
    /\ createdIds = <<>>

\* TargetTracker()
TrackerInit == TrackerNew(DefaultMaxTracks)
\* TargetTracker(max_tracks) for any argument
TrackerArgs == \E m \in MaxTracksArgs : TrackerNew(m)

\* TargetTracker.predict(dt)
Predict(dt) ==
    /\ trkWork < MaxWork
    /\ tracks' = PredictAll(tracks, dt)
    /\ trkWork' = trkWork + 1
    /\ trkLast' = [op |-> "predict", arg |-> dt, raised |-> FALSE]
    /\ trkEvents' = <<>>
    /\ UNCHANGED <<next_id, createdIds, max_tracks, simVars, restVars>>

\* the assignments of an update call whose loop ended in r
UpdateCommit(dets, r) ==
    /\ trkWork + Work(dets) <= MaxWork
    /\ tracks' = r.tracks
    /\ next_id' = r.next_id
    /\ trkWork' = trkWork + Work(dets)
    /\ trkLast' = [op |-> "update", arg |-> dets, raised |-> r.raised]
    /\ trkEvents' = r.events
    /\ createdIds' = createdIds \o r.made
    /\ UNCHANGED <<max_tracks, simVars, restVars>>

\* TargetTracker.update(detections)
Update(dets) ==
    UpdateCommit(dets, UpdateLoop([tracks |-> tracks, next_id |-> next_id, raised |-> FALSE,
                                   made |-> <<>>, events |-> <<>>], dets, 1))

TrackerNext ==
    \/ \E dt \in Dts : Predict(dt)
    \/ \E dets \in DetectionLists : Update(dets)

-----------------------------------------------------------------------------
(* run_simulation (main.py), lines 21-92.  The run owns a TargetTracker    *)
(* (line 28) besides the scan state.                                       *)

\* duration and ping_interval of the run, in ticks
SimDuration == 3
SimPingInterval == 2
\* the echoes (bearings of peak 1 among peaks 0) one scan can see
MaxEchoes == 1

\* bearings = np.arange(0, 360, 5), line 61
ScanStop == 360
ScanStep == 5
NumBearings == (ScanStop + ScanStep - 1) \div ScanStep
BearingAt(i) == (i - 1) * ScanStep

RECURSIVE SumSeq(_, _)
SumSeq(q, n) == IF n = 0 THEN 0 ELSE q[n] + SumSeq(q, n - 1)
Squares(q) == [i \in 1..Len(q) |-> q[i] * q[i]]

\* mags > mags.mean() + 3 * mags.std(), line 70, on integer peaks: with
\* n = len(mags), S = sum and Q = sum of squares, m > S/n + 3 sqrt(Q/n - S^2/n^2)
IsPeak(m, n, S, Q) ==
    /\ n * m - S > 0
    /\ (n * m - S) * (n * m - S) > 9 * (n * Q - S * S)
PeakIndices(mags) ==
    LET n == Len(mags)
        S == SumSeq(mags, n)
        Q == SumSeq(Squares(mags), n)
    IN  {i \in 1..n : IsPeak(mags[i], n, S, Q)}

\* the elements of a set of indices, in increasing order
RECURSIVE Ascending(_)
Ascending(I) ==
    IF I = {} THEN <<>>
    ELSE LET m == CHOOSE x \in I : \A y \in I : x <= y
         IN  <<m>> \o Ascending(I \ {m})

\* bearings[peaks] with mags[peaks], lines 71-72
Detected(mags) ==
    LET idx == Ascending(PeakIndices(mags))
    IN  [k \in 1..Len(idx) |-> <<BearingAt(idx[k]), mags[idx[k]]>>]

SimInit ==
    /\ simPc = "loop"
    /\ simClock = 0
    /\ simLastPing = 0 - SimPingInterval
    /\ simCycle = 0
    /\ simIdx = 0
    /\ simMags = <<>>
    /\ simDetected = <<>>
    /\ simBti = <<>>
    /\ simSteps = <<>>
    /\ simFailedAt = 0

\* The while test and the ping test, lines 39-41, and the start of a ping,
\* lines 42-62: the chirp, the WAV (its failure is caught, line 52), the
\* array ping and the noise.
SimLoop ==
    /\ simPc = "loop"
    /\ IF simClock >= SimDuration
       THEN /\ simPc' = "returned"
            /\ UNCHANGED <<simLastPing, simCycle, simIdx, simMags, simSteps>>
       ELSE IF simClock - simLastPing >= SimPingInterval
       THEN /\ simPc' = "scan"
            /\ simLastPing' = simClock
            /\ simCycle' = simCycle + 1
            /\ simIdx' = 1
            /\ simMags' = <<>>
            /\ simSteps' = <<>>
       ELSE /\ simPc' = "sleep"
            /\ UNCHANGED <<simLastPing, simCycle, simIdx, simMags, simSteps>>
    /\ UNCHANGED <<simClock, simDetected, simBti, simFailedAt, trkVars, restVars>>

\* One pass of the scan loop, lines 63-66, in which delay_and_sum and
\* matched_filter return: the bearing's peak m joins mags.
SimScanBearing(m) ==
    /\ simPc = "scan"
    /\ m = 0 \/ SumSeq(simMags, Len(simMags)) < MaxEchoes
    /\ simMags' = Append(simMags, m)
    /\ IF simIdx = NumBearings
       THEN simPc' = "extract" /\ simIdx' = simIdx /\ simSteps' = Append(simSteps, "scan")
       ELSE simPc' = "scan" /\ simIdx' = simIdx + 1 /\ simSteps' = simSteps
    /\ UNCHANGED <<simClock, simLastPing, simCycle, simDetected, simBti, simFailedAt, trkVars, restVars>>

\* One pass of the scan loop in which delay_and_sum or matched_filter
\* raises: nothing in run_simulation catches it, and the run ends.
SimScanRaise ==
    /\ simPc = "scan"
    /\ simPc' = "raised"
    /\ simFailedAt' = simIdx
    /\ UNCHANGED <<simClock, simLastPing, simCycle, simIdx, simMags, simDetected, simBti,
                   simSteps, trkVars, restVars>>

\* Lines 68-90: the peaks, the lists of the bearing-time display, the UI and
\* the sound (its failure is caught, line 89).  tracker is not used.
SimExtract ==
    /\ simPc = "extract"
    /\ simDetected' = Detected(simMags)
    /\ simBti' = simBti \o [k \in 1..Len(Detected(simMags)) |->
                               <<simClock, Detected(simMags)[k][1], Detected(simMags)[k][2]>>]
    /\ simSteps' = Append(simSteps, "extract")
    /\ simPc' = "sleep"
    /\ UNCHANGED <<simClock, simLastPing, simCycle, simIdx, simMags, simFailedAt, trkVars, restVars>>

\* time.sleep(0.1), line 92
SimSleep ==
    /\ simPc = "sleep"
    /\ simClock' = simClock + 1
    /\ simPc' = "loop"
    /\ UNCHANGED <<simLastPing, simCycle, simIdx, simMags, simDetected, simBti, simSteps,
                   simFailedAt, trkVars, restVars>>

SimNext ==
    \/ SimLoop
    \/ \E m \in {0, 1} : SimScanBearing(m)
    \/ SimScanRaise
    \/ SimExtract
    \/ SimSleep

-----------------------------------------------------------------------------
(* delay_and_sum and mvdr_beamform (beamforming.py), as far as the shapes  *)
(* of their arrays decide whether they return.  data has shape             *)
(* (rows, samples), positions has shape (npos, 3).                         *)

MaxElems == 4
MaxSamples == 3
Freqs == {0, 2, 3000}

\* numpy's rule for one axis of two operands: equal lengths, or one of
\* them 1; -1 when the operands cannot be broadcast together
BroadcastDim(a, b) ==
    IF a = b THEN a ELSE IF a = 1 THEN b ELSE IF b = 1 THEN a ELSE -1

\* lines 37-39: data * sv[:, None].conjugate() has shapes (rows, samples)
\* and (npos, 1); the sum over axis 0 has samples elements
DelayAndSumResult(rows, samples, npos) ==
    IF BroadcastDim(rows, npos) = -1 \/ BroadcastDim(samples, 1) = -1
    THEN [raised |-> TRUE, err |-> "broadcast", outLen |-> 0, summed |-> 0]
    ELSE [raised |-> FALSE, err |-> "", outLen |-> BroadcastDim(samples, 1),
          summed |-> BroadcastDim(rows, npos)]

\* line 46
BinIdx(freq, samples) == IF samples > 0 THEN freq \div samples ELSE 0

\* lines 45-53: the FFT refuses an axis of length 0; R is (rows, rows)
\* whatever the bin; inv(R) @ sv needs rows = npos
MvdrResult(rows, samples, npos, freq) ==
    IF samples = 0
    THEN [raised |-> TRUE, err |-> "fft", outLen |-> 0, summed |-> 0]
    ELSE IF rows # npos
    THEN [raised |-> TRUE, err |-> "matmul", outLen |-> 0, summed |-> 0]
    ELSE [raised |-> FALSE, err |-> "", outLen |-> samples, summed |-> rows]

BeamInit ==
    beam = [fn |-> "none", rows |-> 0, samples |-> 0, npos |-> 0, freq |-> 0,
            res |-> [raised |-> FALSE, err |-> "", outLen |-> 0, summed |-> 0]]

\* the variables the beamformers leave alone
beamRest == <<trkVars, simVars, cls, clsSeen, cfar, ping>>

DelayAndSum(rows, samples, npos, freq) ==
    /\ beam' = [fn |-> "delay_and_sum", rows |-> rows, samples |-> samples, npos |-> npos,
                freq |-> freq, res |-> DelayAndSumResult(rows, samples, npos)]
    /\ UNCHANGED beamRest

MvdrBeamform(rows, samples, npos, freq) ==
    /\ beam' = [fn |-> "mvdr_beamform", rows |-> rows, samples |-> samples, npos |-> npos,
                freq |-> freq, res |-> MvdrResult(rows, samples, npos, freq)]
    /\ UNCHANGED beamRest

BeamNext ==
    \/ \E rows \in 1..MaxElems, samples \in 0..MaxSamples, npos \in 1..MaxElems, freq \in Freqs :
           DelayAndSum(rows, samples, npos, freq)
    \/ \E rows \in 1..MaxElems, samples \in 0..MaxSamples, npos \in 1..MaxElems, freq \in Freqs :
           MvdrBeamform(rows, samples, npos, freq)

-----------------------------------------------------------------------------
(* SimpleClassifier (tracker.py, lines 57-75).  A spectrum is a sequence   *)
(* of integers; a feature is a rational or NaN.                            *)

MaxSpectrum == 9
SpecValues == {1, 3}
NumBands == 8

\* nan, as a rational of denominator 0
NaN == <<0, 0>>

SpectrumOf(n, v) == [i \in 1..n |-> IF i % 2 = 1 THEN v ELSE -v]
Spectra == {SpectrumOf(n, v) : n \in 0..MaxSpectrum, v \in SpecValues}

\* np.array_split(a, 8): the first len(a) % 8 bands hold one element more
BandSize(len, b) == len \div NumBands + (IF b <= len % NumBands THEN 1 ELSE 0)
RECURSIVE BandStart(_, _)
BandStart(len, b) == IF b = 1 THEN 1 ELSE BandStart(len, b - 1) + BandSize(len, b - 1)

\* b.mean() of band b of np.abs(spectrum); the mean of no element is nan
BandMean(spectrum, b) ==
    LET n == BandSize(Len(spectrum), b)
        from == BandStart(Len(spectrum), b)
    IN  IF n = 0 THEN NaN
        ELSE Rat(SumSeq([k \in 1..n |-> Abs(spectrum[from + k - 1])], n), n)

\* featurize, lines 62-65
Featurize(spectrum) == [b \in 1..NumBands |-> BandMean(spectrum, b)]

HasNan(feat) == \E b \in 1..Len(feat) : feat[b] = NaN

\* What self.model.fit(X, y) accepts (scikit-learn's SVC): as many samples
\* as labels, at least one, rows of one length without nan, two classes.
FitRaises(X, y) ==
    \/ Len(X) # Len(y)
    \/ Len(X) = 0
    \/ \E i \in 1..Len(X) : HasNan(X[i]) \/ Len(X[i]) # Len(X[1])
    \/ Cardinality({y[i] : i \in 1..Len(y)}) < 2

Unfitted == [fitted |-> FALSE, classes |-> {}, nfeat |-> 0]
Fitted(X, y) == [fitted |-> TRUE, classes |-> {y[i] : i \in 1..Len(y)}, nfeat |-> Len(X[1])]

\* the training sets the classifier is given
GoodX == <<Featurize(SpectrumOf(8, 1)), Featurize(SpectrumOf(8, 3))>>
TrainingSets ==
    { [X |-> GoodX, y |-> <<"sub", "whale">>],
      [X |-> GoodX, y |-> <<"ship", "whale">>],
      [X |-> GoodX, y |-> <<"sub", "sub">>],
      [X |-> GoodX, y |-> <<"sub">>],
      [X |-> <<Featurize(SpectrumOf(3, 1)), Featurize(SpectrumOf(8, 3))>>, y |-> <<"sub", "whale">>],
      [X |-> <<>>, y |-> <<>>] }

\* TrainedAfter with self.trained = True set before the fit
TrainedAfterFlagFirst(old, fitRaised) == TRUE

\* self.trained after train, lines 68-69: set only when fit returned
TrainedAfter(old, fitRaised) == IF fitRaised THEN old ELSE TRUE

ClassifierInit ==
    /\ cls = [trained |-> FALSE, model |-> Unfitted,
              last |-> [op |-> "init", arg |-> <<>>, result |-> "", raised |-> FALSE]]
    /\ clsSeen = {}

\* the variables the classifier leaves alone
clsRest == <<trkVars, simVars, beam, cfar, ping>>

\* train(X, y), lines 67-69
Train(t) ==
    /\ cls' = [trained |-> TrainedAfter(cls.trained, FitRaises(t.X, t.y)),
               model |-> IF FitRaises(t.X, t.y) THEN cls.model ELSE Fitted(t.X, t.y),
               last |-> [op |-> "train", arg |-> t, result |-> "",
                         raised |-> FitRaises(t.X, t.y)]]
    /\ clsSeen' = clsSeen \cup {IF FitRaises(t.X, t.y) THEN "train_raised" ELSE "train_ok"}
    /\ UNCHANGED clsRest

\* featurize(spectrum), a call of its own: it changes nothing
ClsFeaturize(spectrum) ==
    /\ cls' = [cls EXCEPT !.last = [op |-> "featurize", arg |-> spectrum,
                                    result |-> Featurize(spectrum), raised |-> FALSE]]
    /\ clsSeen' = clsSeen \cup {"featurize"}
    /\ UNCHANGED clsRest

\* self.model.predict(feat) raises on a model that was not fitted, on nan
\* and on a feature count other than the fitted one
ModelPredictRaises(model, feat) ==
    ~model.fitted \/ HasNan(feat) \/ Len(feat) # model.nfeat

\* predict(spectrum), lines 71-75; the label of a fitted model is any of
\* its classes
ClsPredict(spectrum, label) ==
    /\ IF ~cls.trained
       THEN /\ label = "unknown"
            /\ cls' = [cls EXCEPT !.last = [op |-> "predict", arg |-> spectrum,
                                            result |-> "unknown", raised |-> FALSE]]
       ELSE IF ModelPredictRaises(cls.model, Featurize(spectrum))
       THEN /\ label = "unknown"
            /\ cls' = [cls EXCEPT !.last = [op |-> "predict", arg |-> spectrum,
                                            result |-> "", raised |-> TRUE]]
       ELSE /\ label \in cls.model.classes
            /\ cls' = [cls EXCEPT !.last = [op |-> "predict", arg |-> spectrum,
                                            result |-> label, raised |-> FALSE]]
    /\ clsSeen' = clsSeen \cup {IF Len(spectrum) = 0 THEN "predict_empty" ELSE "predict"}
    /\ UNCHANGED clsRest

Labels == {"unknown", "sub", "whale", "ship"}

ClassifierNext ==
    \/ \E t \in TrainingSets : Train(t)
    \/ \E spectrum \in Spectra : ClsFeaturize(spectrum)
    \/ \E spectrum \in Spectra, label \in Labels : ClsPredict(spectrum, label)

-----------------------------------------------------------------------------
(* simple_cfar (processing.py, lines 23-38) with the default rate 1e-3.    *)
(* data is a sequence of integers; the code's index i runs from 0.         *)

MaxN == 6
MaxGuard == 2
MaxNoiseWin == 2
DataValues == {0, 1, -9}

\* 1 + 3 * sqrt(-ln(1e-3)) = 8.8848..., line 36, as a ratio: no quotient of
\* the small integers compared with it lies within 1/10000 of it
ThresholdNum == 88848
ThresholdDen == 10000

Min(a, b) == IF a < b THEN a ELSE b
Max(a, b) == IF a > b THEN a ELSE b

\* lines 28-31
LeftStart(i, guard, noise_win) == Max(0, i - guard - noise_win)
LeftEnd(i, guard) == Max(0, i - guard)
\* RightStart one cell early
RightStartEarly(N, i, guard) == Min(N, i + guard)
RightStart(N, i, guard) == Min(N, i + guard + 1)
RightEnd(N, i, guard, noise_win) == Min(N, i + guard + 1 + noise_win)

\* the indices of the slice a:b, in order
SliceIdx(a, b) == [k \in 1..Max(0, b - a) |-> a + k - 1]

\* the indices of noise_samples, line 32
NoiseIdx(N, i, guard, noise_win) ==
    SliceIdx(LeftStart(i, guard, noise_win), LeftEnd(i, guard)) \o
    SliceIdx(RightStart(N, i, guard), RightEnd(N, i, guard, noise_win))

\* |data[i]| > mean(|noise|) * threshold factor, lines 35-37
AboveThreshold(data, i, idx) ==
    Abs(data[i + 1]) * Len(idx) * ThresholdDen >
        SumSeq([k \in 1..Len(idx) |-> Abs(data[idx[k] + 1])], Len(idx)) * ThresholdNum

\* CfarAt with an index without noise samples compared against a level of 0
CfarAtZeroLevel(data, i, guard, noise_win) ==
    IF Len(NoiseIdx(Len(data), i, guard, noise_win)) < 1
    THEN Abs(data[i + 1]) > 0
    ELSE AboveThreshold(data, i, NoiseIdx(Len(data), i, guard, noise_win))

\* out[i] after the loop body, lines 28-37
CfarAt(data, i, guard, noise_win) ==
    IF Len(NoiseIdx(Len(data), i, guard, noise_win)) < 1
    THEN FALSE
    ELSE AboveThreshold(data, i, NoiseIdx(Len(data), i, guard, noise_win))

SimpleCfarOut(data, guard, noise_win) ==
    [k \in 1..Len(data) |-> CfarAt(data, k - 1, guard, noise_win)]

\* no call at hand
CfarInit ==
    cfar = [called |-> FALSE, data |-> <<>>, guard |-> 0, noise_win |-> 0, noise |-> <<>>,
            out |-> <<>>]

\* the arguments of one call
CfarArgs ==
    \E n \in 0..MaxN, guard \in 0..MaxGuard, noise_win \in 0..MaxNoiseWin :
        \E data \in [1..n -> DataValues] :
            cfar = [called |-> FALSE, data |-> data, guard |-> guard, noise_win |-> noise_win,
                    noise |-> <<>>, out |-> <<>>]

\* the call returns; noise keeps, for each index, the indices whose samples
\* made its noise_samples
SimpleCfar ==
    /\ ~cfar.called
    /\ cfar' = [cfar EXCEPT !.called = TRUE,
                            !.noise = [k \in 1..Len(cfar.data) |->
                                          NoiseIdx(Len(cfar.data), k - 1, cfar.guard,
                                                   cfar.noise_win)],
                            !.out = SimpleCfarOut(cfar.data, cfar.guard, cfar.noise_win)]
    /\ UNCHANGED <<trkVars, simVars, beam, cls, clsSeen, ping>>

-----------------------------------------------------------------------------
(* SonarInput.make_array_ping (input.py, lines 33-50).  The chirp is the   *)
(* sequence 1, 2, ..., ranges maps channel indices to ranges.              *)

MaxChannels == 2
MaxChirp == 2
RangeValues == {-8, -1, 0, 2, 8}
Speeds == {3}
SampleRates == {1, 3}

\* the padding of out_len, line 41
Padding == 10
\* r / 1000.0, line 48
AmpScale == 1000

ChirpOf(len) == [k \in 1..len |-> k]

\* int(x) of the quotient n / d, d > 0: towards zero
Trunc(n, d) == IF n >= 0 THEN n \div d ELSE -((-n) \div d)

\* int((2 * r / speed_of_sound) * self.sample_rate), lines 40 and 47
DelaySamples(r, speed, rate) == Trunc(2 * r * rate, speed)

\* max(ranges.values()) if ranges else 0.0, line 39
MaxRange(ranges) ==
    IF DOMAIN ranges = {} THEN 0
    ELSE CHOOSE r \in {ranges[k] : k \in DOMAIN ranges} :
             \A k \in DOMAIN ranges : ranges[k] <= r

\* OutLen without the delay of the farthest target
OutLenNoDelay(len, ranges, speed, rate) == len + Padding

\* out_len, line 41
OutLen(len, ranges, speed, rate) ==
    len + DelaySamples(MaxRange(ranges), speed, rate) + Padding

\* where an index of a slice bound falls in a row of n elements
SliceBound(a, n) == IF a < 0 THEN Max(a + n, 0) ELSE Min(a, n)

\* Row ch after line 49.  The slice delay:delay+len of the row has
\* Max(0, hi - lo) elements; += raises unless the chirp has as many, or one.
\* 1.0 / (1.0 + r/1000.0) raises at r = -1000.
RowOf(chirp, r, speed, rate, n) ==
    LET lo == SliceBound(DelaySamples(r, speed, rate), n)
        hi == SliceBound(DelaySamples(r, speed, rate) + Len(chirp), n)
        size == Max(0, hi - lo)
    IN  IF AmpScale + r = 0 \/ (size # Len(chirp) /\ Len(chirp) # 1)
        THEN [raised |-> TRUE, row |-> <<>>]
        ELSE [raised |-> FALSE,
              row |-> [j \in 1..n |->
                          IF j > lo /\ j <= lo + size
                          THEN Rat(AmpScale * chirp[IF Len(chirp) = 1 THEN 1 ELSE j - lo],
                                   AmpScale + r)
                          ELSE R(0)]]

ZeroRow(n) == [j \in 1..n |-> R(0)]

\* make_array_ping: np.zeros raises on a negative length, and the loop of
\* lines 43-49 ends at the first channel that raises
MakeArrayPing(channels, chirp, ranges, speed, rate) ==
    LET n == OutLen(Len(chirp), ranges, speed, rate)
        rowAt(ch) == IF ch \in DOMAIN ranges
                     THEN RowOf(chirp, ranges[ch], speed, rate, n)
                     ELSE [raised |-> FALSE, row |-> ZeroRow(n)]
    IN  IF n < 0 \/ \E ch \in 0..(channels - 1) : rowAt(ch).raised
        THEN [raised |-> TRUE, out |-> <<>>]
        ELSE [raised |-> FALSE, out |-> [k \in 1..channels |-> rowAt(k - 1).row]]

\* no call at hand
PingInit ==
    ping = [called |-> FALSE, channels |-> 0, chirp |-> <<>>, ranges |-> <<>>, speed |-> 1,
            rate |-> 1, res |-> [raised |-> FALSE, out |-> <<>>]]

RangeMaps == UNION {[D -> RangeValues] : D \in SUBSET (0..MaxChannels)}

\* the arguments of one call, on an input of any channel count
PingArgs ==
    \E channels \in 0..MaxChannels, len \in 0..MaxChirp, ranges \in RangeMaps,
       speed \in Speeds, rate \in SampleRates :
        ping = [called |-> FALSE, channels |-> channels, chirp |-> ChirpOf(len),
                ranges |-> ranges, speed |-> speed, rate |-> rate,
                res |-> [raised |-> FALSE, out |-> <<>>]]

\* the call returns or raises
ArrayPing ==
    /\ ~ping.called
    /\ ping' = [ping EXCEPT !.called = TRUE,
                            !.res = MakeArrayPing(ping.channels, ping.chirp, ping.ranges,
                                                  ping.speed, ping.rate)]
    /\ UNCHANGED <<trkVars, simVars, beam, cls, clsSeen, cfar>>

-----------------------------------------------------------------------------
(* The specifications: one per component, the others at rest.              *)

Init == TrackerInit /\ SimInit /\ BeamInit /\ ClassifierInit /\ CfarInit /\ PingInit

\* a tracker of any max_tracks driven by any caller
InitTracker == TrackerArgs /\ SimInit /\ BeamInit /\ ClassifierInit /\ CfarInit /\ PingInit
Next == TrackerNext
Spec == InitTracker /\ [][Next]_vars

\* run_simulation with the tracker it constructs
SpecSim == Init /\ [][SimNext]_vars

\* the beamformers called with any shapes
SpecBeam == Init /\ [][BeamNext]_vars

\* the classifier driven by any caller
SpecClassifier == Init /\ [][ClassifierNext]_vars

\* simple_cfar called once with any data
InitCfar == TrackerInit /\ SimInit /\ BeamInit /\ ClassifierInit /\ CfarArgs /\ PingInit
SpecCfar == InitCfar /\ [][SimpleCfar]_vars

\* make_array_ping called once with any ranges
InitPing == TrackerInit /\ SimInit /\ BeamInit /\ ClassifierInit /\ CfarInit /\ PingArgs
SpecPing == InitPing /\ [][ArrayPing]_vars

-----------------------------------------------------------------------------
(* Properties of TargetTracker, under Spec.                                *)

\* the squared distance from detection d to the track of entry e
DistTo(e, d) == Norm2(Diff2(e.tr.state, d))
\* the passes of the last update over a detection of two coordinates
WellFormedEvents == {i \in 1..Len(trkEvents) : WellFormed(trkEvents[i].d)}
\* the pass made a track: the dict grew by one entry
MadeTrack(e) == Len(e.post) = Len(e.pre) + 1
\* the pass corrected the track of entry k and touched nothing else
CorrectedAt(e, k) ==
    /\ Len(e.post) = Len(e.pre)
    /\ e.postNext = e.preNext
    /\ e.post[k].key = e.pre[k].key
    /\ e.post[k].tr = CorrectTrack(e.pre[k].tr, e.d)
    /\ e.post[k].tr.P # e.pre[k].tr.P
    /\ \A j \in 1..Len(e.pre) : j # k => e.post[j] = e.pre[j]
\* entry k holds a track nearest to the detection of the pass
IsNearest(e, k) ==
    \A j \in 1..Len(e.pre) : ~Norm2Less(DistTo(e.pre[j], e.d), DistTo(e.pre[k], e.d))

C1_IdsState ==
    /\ \A i, j \in 1..Len(createdIds) : i < j => createdIds[i] < createdIds[j]
    /\ next_id = Len(createdIds) + 1
    /\ \A i \in 1..Len(createdIds) : createdIds[i] < next_id
C1_IdsStep ==
    /\ next_id' >= next_id
    /\ next_id' - next_id = Len(createdIds') - Len(createdIds)
    /\ SubSeq(createdIds', 1, Len(createdIds)) = createdIds

\* C1: track ids are handed out in strictly increasing order and never
\* twice (every later track has a larger id than every earlier one), and
\* next_id grows by exactly 1 per created track and never decreases, under
\* any sequence of predict and update calls.
C1_IdsMonotonic == [](C1_IdsState) /\ [][C1_IdsStep]_vars

\* two tracks made by two different update calls, the second after a predict
C1_Witness ==
    /\ createdIds = <<1, 2>>
    /\ trkLast.op = "update"
    /\ Len(trkEvents) = 1
    /\ MadeTrack(trkEvents[1])
    /\ trkEvents[1].pre # <<>>
    /\ trkEvents[1].pre[1].tr.P # Eye(4, R(1))

\* C2 as stated: a detection makes a track exactly when there is no track
\* or the nearest track is strictly more than 1000 away; otherwise, also at
\* exactly 1000, the nearest track is corrected and no track is made.
C2_GateExceeds ==
    \A i \in WellFormedEvents :
        LET e == trkEvents[i]
            far == \A j \in 1..Len(e.pre) :
                       Norm2Less(Dist2Of(GateThreshold), DistTo(e.pre[j], e.d))
        IN  /\ MadeTrack(e) <=> (Len(e.pre) = 0 \/ far)
            /\ ~MadeTrack(e) => \E k \in 1..Len(e.pre) : IsNearest(e, k) /\ CorrectedAt(e, k)

\* C2 amended: a detection of two coordinates makes a track exactly when
\* there is no track or the nearest track is 1000 or more away (a distance
\* of exactly 1000 makes a track); otherwise the nearest track is corrected,
\* no other track changes and no track is made.
C2_GateAtLeast ==
    \A i \in WellFormedEvents :
        LET e == trkEvents[i]
            far == \A j \in 1..Len(e.pre) :
                       ~Norm2Less(DistTo(e.pre[j], e.d), Dist2Of(GateThreshold))
        IN  /\ MadeTrack(e) <=> (Len(e.pre) = 0 \/ far)
            /\ MadeTrack(e) =>
                   /\ e.postNext = e.preNext + 1
                   /\ SubSeq(e.post, 1, Len(e.pre)) = e.pre
            /\ ~MadeTrack(e) => \E k \in 1..Len(e.pre) : IsNearest(e, k) /\ CorrectedAt(e, k)

\* a detection exactly 1000 from the only track made a second track, and a
\* detection nearer than 1000 corrected a track, in one update call
C2_Witness ==
    \E i, j \in WellFormedEvents :
        /\ Len(trkEvents[i].pre) = 1
        /\ ~Norm2Less(DistTo(trkEvents[i].pre[1], trkEvents[i].d), Dist2Of(GateThreshold))
        /\ ~Norm2Less(Dist2Of(GateThreshold), DistTo(trkEvents[i].pre[1], trkEvents[i].d))
        /\ MadeTrack(trkEvents[i])
        /\ Len(trkEvents[j].pre) > 0
        /\ ~MadeTrack(trkEvents[j])

\* the last call was update([d]) with d of two coordinates, on no tracks
C3_Case ==
    /\ trkLast.op = "update"
    /\ Len(trkLast.arg) = 1
    /\ WellFormed(trkLast.arg[1])
    /\ Len(trkEvents) = 1
    /\ trkEvents[1].pre = <<>>

\* C3: update with exactly one detection (x, y) on a tracker without tracks
\* makes exactly one track, of state [x, y, 0, 0], and nothing else.
C3_FirstDetection ==
    C3_Case =>
        /\ Len(tracks) = 1
        /\ tracks[1].tr.state = <<trkLast.arg[1][1], trkLast.arg[1][2], R(0), R(0)>>
        /\ tracks[1].key = trkEvents[1].preNext
        /\ tracks[1].tr.id = trkEvents[1].preNext
        /\ next_id = trkEvents[1].preNext + 1
        /\ ~trkLast.raised

\* update([(600, 800)]) on a fresh tracker
C3_Witness == C3_Case /\ trkLast.arg[1] = PointB /\ Len(tracks) = 1 /\ createdIds = <<1>>

\* C5 as stated: an update whose list holds a malformed detection does not
\* fail, visits every detection of the list, and the malformed detection
\* changes no track and not next_id.
C5_MalformedDropped ==
    (trkLast.op = "update" /\ \E i \in 1..Len(trkLast.arg) : ~WellFormed(trkLast.arg[i])) =>
        /\ ~trkLast.raised
        /\ Len(trkEvents) = Len(trkLast.arg)
        /\ \A i \in 1..Len(trkEvents) :
               ~WellFormed(trkEvents[i].d) =>
                   /\ trkEvents[i].post = trkEvents[i].pre
                   /\ trkEvents[i].postNext = trkEvents[i].preNext

\* what the passes of the last update call show
C11_State ==
    trkLast.op = "update" =>
        /\ Len(trkEvents) <= Len(trkLast.arg)
        /\ trkLast.raised \/ Len(trkEvents) = Len(trkLast.arg)
        /\ \A i \in 1..Len(trkEvents) :
               /\ trkEvents[i].d = trkLast.arg[i]
               /\ i < Len(trkEvents) =>
                      /\ ~trkEvents[i].raised
                      /\ trkEvents[i + 1].pre = trkEvents[i].post
                      /\ trkEvents[i + 1].preNext = trkEvents[i].postNext
               /\ i = Len(trkEvents) =>
                      /\ trkEvents[i].raised = trkLast.raised
                      /\ tracks = trkEvents[i].post
                      /\ next_id = trkEvents[i].postNext
               /\ (~trkEvents[i].raised /\ WellFormed(trkEvents[i].d) /\ ~MadeTrack(trkEvents[i])) =>
                      \E k \in 1..Len(trkEvents[i].pre) :
                          IsNearest(trkEvents[i], k) /\ CorrectedAt(trkEvents[i], k)
\* the first pass of a call starts from the tracker as the call found it
C11_Step ==
    (trkLast'.op = "update" /\ trkEvents' # <<>>) =>
        /\ trkEvents'[1].pre = tracks
        /\ trkEvents'[1].preNext = next_id

\* C11: one update call visits its detections one at a time in list order,
\* each against the tracker as the detections before it left it, and
\* corrects the track nearest then, whether or not an earlier detection of
\* the call made or corrected that track.
C11_GreedyInOrder == [](C11_State) /\ [][C11_Step]_vars

\* the first detection of a call made a track, and the second and the third
\* both corrected that track
C11_Witness ==
    /\ trkLast.op = "update"
    /\ Len(trkEvents) = 3
    /\ MadeTrack(trkEvents[1])
    /\ \A i \in 1..3 : WellFormed(trkEvents[i].d) /\ ~trkEvents[i].raised
    /\ \E k \in 1..Len(trkEvents[1].post) :
           /\ k > Len(trkEvents[1].pre)
           /\ CorrectedAt(trkEvents[2], k)
           /\ CorrectedAt(trkEvents[3], k)
           /\ trkEvents[3].pre[k].tr.state # trkEvents[2].pre[k].tr.state

\* what a predict call may and may not change
C12_Step ==
    trkLast'.op = "predict" =>
        /\ next_id' = next_id
        /\ Len(tracks') = Len(tracks)
        /\ \A i \in 1..Len(tracks) :
               /\ tracks'[i].key = tracks[i].key
               /\ tracks'[i].tr.id = tracks[i].tr.id
               /\ tracks'[i].tr.state[1] =
                      RAdd(tracks[i].tr.state[1], RMul(tracks[i].tr.state[3], trkLast'.arg))
               /\ tracks'[i].tr.state[2] =
                      RAdd(tracks[i].tr.state[2], RMul(tracks[i].tr.state[4], trkLast'.arg))
               /\ tracks'[i].tr.state[3] = tracks[i].tr.state[3]
               /\ tracks'[i].tr.state[4] = tracks[i].tr.state[4]
               /\ Len(tracks'[i].tr.state) = 4

\* C12: predict(dt) takes every track's x to x + vx*dt and y to y + vy*dt
\* and leaves its velocity and id, the keys of the mapping, their number
\* and next_id as they were; on no tracks it changes nothing of these.
C12_PredictFrame == [][C12_Step]_vars

\* a predict on a track that moves: its velocity is not zero
C12_Witness ==
    /\ trkLast.op = "predict"
    /\ Len(tracks) >= 1
    /\ tracks[1].tr.state[3] # R(0)
    /\ tracks[1].tr.state[4] # R(0)

\* the mapping in one state
C14_State ==
    /\ \A i \in 1..Len(tracks) :
           /\ tracks[i].key = tracks[i].tr.id
           /\ tracks[i].key < next_id
           /\ \A j \in 1..Len(tracks) : tracks[j].key = tracks[i].key => j = i
    /\ Len(tracks) = next_id - 1
\* no call takes a key away
C14_Step == Keys(tracks) \subseteq Keys(tracks')

\* C14: under any sequence of predict and update calls a key of the tracks
\* mapping stays a key for good, every key is the id of the track stored
\* under it and smaller than next_id, and there are next_id - 1 tracks.
C14_NoRemoval == [](C14_State) /\ [][C14_Step]_vars

\* two tracks, one of them corrected, after an update call that raised
C14_Witness ==
    /\ Len(tracks) = 2
    /\ trkLast.op = "update"
    /\ trkLast.raised
    /\ Len(trkEvents) = 2
    /\ \E i \in 1..2 : tracks[i].tr.P # Eye(4, R(1))

\* C15 as stated: the tracker never holds more tracks than the max_tracks
\* it was constructed with.
C15_WithinMaxTracks == Len(tracks) <= max_tracks

-----------------------------------------------------------------------------
(* Properties of run_simulation, under SpecSim.                            *)

\* C4 as stated: a ping cycle runs the bearing scan, the detection
\* extraction, the tracker's predict and the tracker's update with the
\* cycle's detections, in this order, before the next cycle begins; a cycle
\* that extracts detections passes them to the tracker.
C4_CycleFeedsTracker ==
    (simPc = "sleep" /\ simSteps # <<>> /\ simDetected # <<>>) =>
        /\ simSteps = <<"scan", "extract", "predict", "update">>
        /\ trkLast.op = "update"
        /\ Len(trkLast.arg) = Len(simDetected)

\* C6 as stated: a failure of the beamformer or the matched filter at one
\* bearing ends only that bearing's contribution; the scan goes on to the
\* remaining bearings, the extraction runs and later cycles run.
C6_FailureSkipsBearing == simFailedAt # 0 => simPc \in {"scan", "extract", "sleep", "loop", "returned"}

-----------------------------------------------------------------------------
(* Claims about the beamformers, under SpecBeam.                           *)

\* C7: whenever the snapshot's row count differs from the number of sensor
\* positions, the beamformer that was called reports an error and returns
\* no output, the cases where one of the two counts is 1 included.
C7_MismatchRaises ==
    (beam.fn # "none" /\ beam.rows # beam.npos) => beam.res.raised

-----------------------------------------------------------------------------
(* Claims about SimpleClassifier, under SpecClassifier.                    *)

\* C8: as long as no train call has completed, the classifier is untrained
\* and a predict call returns 'unknown' without raising, for every spectrum,
\* after featurize calls and after train calls that raised.
C8_UnknownBeforeTrain ==
    "train_ok" \notin clsSeen =>
        /\ ~cls.trained
        /\ cls.last.op = "predict" => (cls.last.result = "unknown" /\ ~cls.last.raised)

\* a predict of the empty spectrum after a train that raised and a featurize
C8_Witness ==
    /\ "train_ok" \notin clsSeen
    /\ "train_raised" \in clsSeen
    /\ "featurize" \in clsSeen
    /\ cls.last.op = "predict"
    /\ Len(cls.last.arg) = 0
    /\ cls.last.result = "unknown"

-----------------------------------------------------------------------------
(* Claims about simple_cfar, under SpecCfar.                               *)

\* both noise windows of index i are empty after clipping
NoNoise(N, i, guard, noise_win) ==
    /\ LeftEnd(i, guard) <= LeftStart(i, guard, noise_win)
    /\ RightEnd(N, i, guard, noise_win) <= RightStart(N, i, guard)

\* C9: an index whose left and right noise windows are both empty after
\* clipping to the array is not flagged, whatever data[i] is.
C9_NoNoiseNoFlag ==
    cfar.called =>
        \A i \in 0..(Len(cfar.data) - 1) :
            NoNoise(Len(cfar.data), i, cfar.guard, cfar.noise_win) => ~cfar.out[i + 1]

\* a loud sample without noise samples next to samples that have some
C9_Witness ==
    /\ cfar.called
    /\ cfar.noise_win > 0
    /\ \E i \in 0..(Len(cfar.data) - 1) :
           /\ NoNoise(Len(cfar.data), i, cfar.guard, cfar.noise_win)
           /\ cfar.data[i + 1] = -9
           /\ ~cfar.out[i + 1]

\* the indices the noise estimate of index i is to use
NoiseBand(N, i, guard, noise_win) ==
    {j \in 0..(N - 1) : guard < Abs(i - j) /\ Abs(i - j) <= guard + noise_win}

\* C13: the noise samples of index i are exactly those at the indices j of
\* the array with guard < |i - j| <= guard + noise_win, each taken once, at
\* most noise_win of them on either side of i.
C13_NoiseWindows ==
    cfar.called =>
        \A i \in 0..(Len(cfar.data) - 1) :
            LET used == cfar.noise[i + 1]
            IN  /\ {used[k] : k \in 1..Len(used)} =
                       NoiseBand(Len(cfar.data), i, cfar.guard, cfar.noise_win)
                /\ Len(used) =
                       Cardinality(NoiseBand(Len(cfar.data), i, cfar.guard, cfar.noise_win))
                /\ Cardinality({k \in 1..Len(used) : used[k] < i}) <= cfar.noise_win
                /\ Cardinality({k \in 1..Len(used) : used[k] > i}) <= cfar.noise_win
                /\ \A k \in 1..Len(used) : Abs(used[k] - i) > cfar.guard

\* a call in which one index has a full window on both sides and another
\* has its left window cut by the start of the array
C13_Witness ==
    /\ cfar.called
    /\ Len(cfar.data) = 6
    /\ cfar.guard = 1
    /\ cfar.noise_win = 1
    /\ cfar.noise[3] = <<0, 4>>
    /\ cfar.noise[2] = <<3>>
    /\ cfar.noise[6] = <<3>>

-----------------------------------------------------------------------------
(* Claims about make_array_ping, under SpecPing.                           *)

\* floor(2 * r / speed_of_sound * sample_rate), r >= 0
EchoStart(r, speed, rate) == (2 * r * rate) \div speed

\* the whole chirp, scaled by 1 / (1 + r/1000), lies in the row from start on
EchoAt(row, chirp, r, start) ==
    /\ start + Len(chirp) <= Len(row)
    /\ \A k \in 1..Len(chirp) : row[start + k] = Rat(AmpScale * chirp[k], AmpScale + r)

AllZero(row) == \A j \in 1..Len(row) : row[j] = R(0)

\* what the result of a call owes its caller
PingLayout ==
    /\ ~ping.res.raised
    /\ Len(ping.res.out) = ping.channels
    /\ \A ch \in 0..(ping.channels - 1) :
           IF ch \in DOMAIN ping.ranges
           THEN ping.ranges[ch] >= 0 =>
                    EchoAt(ping.res.out[ch + 1], ping.chirp, ping.ranges[ch],
                           EchoStart(ping.ranges[ch], ping.speed, ping.rate))
           ELSE AllZero(ping.res.out[ch + 1])

NoNegativeRange == \A k \in DOMAIN ping.ranges : ping.ranges[k] >= 0

\* C10 as stated: every call returns channels rows, the whole echo of each
\* channel of range r >= 0 starting at floor(2*r/speed_of_sound*sample_rate),
\* and the rows of channels without a range all zero.
C10_PingLayoutAlways == ping.called => PingLayout

\* C10, amended: the same of every call none of whose ranges is negative.
C10_PingLayoutNonNegative == (ping.called /\ NoNegativeRange) => PingLayout

\* a call with the farthest echo on one channel and no range for another
C10_Witness ==
    /\ ping.called
    /\ NoNegativeRange
    /\ ping.channels = 2
    /\ Len(ping.chirp) = 2
    /\ DOMAIN ping.ranges = {0, 2}
    /\ ping.ranges[0] = 8
    /\ ping.ranges[2] = 2
    /\ ping.rate = 3
    /\ ~ping.res.raised
    /\ ping.res.out[1][17] = Rat(AmpScale, AmpScale + 8)

====
